---- MODULE Spec2Model ----
(***************************************************************************)
(* Model of the transcript vector store of backend/app/vector_store.py:    *)
(* chunk_transcript, store_meeting_embeddings ("refresh") and              *)
(* search_context ("search") against the meeting_embeddings table created  *)
(* by backend/setup_vector_table.py.                                       *)
(*                                                                         *)
(* Strings are sequences of one-character strings; Python's 0-based        *)
(* positions are kept, so text[i] of the source is text[i + 1] here.       *)
(* The database is PostgreSQL at its default isolation level (READ         *)
(* COMMITTED): store_meeting_embeddings opens conn.transaction() without   *)
(* naming another one.                                                     *)
(***************************************************************************)
EXTENDS Integers, Sequences, FiniteSets

(***************************************************************************)
(* Bounds.  ChunkSize and Overlap stand for the defaults 500 and 100 of    *)
(* chunk_transcript (vector_store.py:38), scaled down 100 times so that a  *)
(* text of a dozen characters is carved into several chunks.  EfSearch      *)
(* stands for hnsw.ef_search, which no statement of the code sets: the     *)
(* number of candidates a scan of the HNSW index that                      *)
(* setup_vector_table.py:36 creates yields (pgvector's default is 40; the  *)
(* stores modelled here hold up to half a dozen rows).                     *)
(***************************************************************************)
ChunkSize == 5
Overlap == 1
MaxCalls == 2
MaxLimit == 2
EfSearch == 2
\* The arguments of the calls of chunk_transcript that SpecChunk follows: texts
\* of up to MaxLen characters, chunk_size in 1..MaxChunkArg, overlap in
\* 0..MaxOverlapArg
MaxLen == 6
MaxChunkArg == 7
MaxOverlapArg == 5

(***************************************************************************)
(* Python string helpers                                                   *)
(***************************************************************************)
Min(a, b) == IF a <= b THEN a ELSE b

Whitespace == {" ", "\n", "\t"}

\* A slice bound as Python reads it for a string of length n: a negative bound
\* counts from the end, and every bound is brought into 0..n
Bound(i, n) == IF i < 0 THEN (IF i + n < 0 THEN 0 ELSE i + n) ELSE Min(i, n)

\* text[a:b]
Slice(text, a, b) ==
    LET lo == Bound(a, Len(text))
        hi == Bound(b, Len(text))
    IN IF lo >= hi THEN <<>> ELSE SubSeq(text, lo + 1, hi)

\* text[i:i+len(sep)] == sep
MatchAt(text, sep, i) ==
    /\ i >= 0
    /\ i + Len(sep) <= Len(text)
    /\ \A k \in 1..Len(sep) : text[i + k] = sep[k]

\* text.rfind(sep, start, end): the highest position i with
\* start <= i and i + len(sep) <= end where sep occurs, or -1; start and end
\* are read as slice bounds
rfind(text, sep, start, end) ==
    LET b == Bound(start, Len(text))
        e == Bound(end, Len(text))
        hits == {i \in b..(e - Len(sep)) : MatchAt(text, sep, i)}
    IN IF hits = {} THEN -1 ELSE CHOOSE i \in hits : \A j \in hits : j <= i

RECURSIVE lstrip(_)
lstrip(s) == IF s # <<>> /\ Head(s) \in Whitespace THEN lstrip(Tail(s)) ELSE s

RECURSIVE rstrip(_)
rstrip(s) ==
    IF s # <<>> /\ s[Len(s)] \in Whitespace THEN rstrip(SubSeq(s, 1, Len(s) - 1)) ELSE s

\* str.strip()
strip(s) == rstrip(lstrip(s))

\* sep.join(parts)
RECURSIVE join(_, _)
join(sep, parts) ==
    IF parts = <<>> THEN <<>>
    ELSE IF Len(parts) = 1 THEN parts[1]
    ELSE parts[1] \o sep \o join(sep, Tail(parts))

(***************************************************************************)
(* chunk_transcript                                                        *)
(***************************************************************************)
Separators == << <<".", " ">>, <<"!", " ">>, <<"?", " ">>, <<"\n">> >>

\* The for-loop over the separators: the first separator, in list order, whose
\* last occurrence inside the window lies past the window's midpoint moves the
\* cut to just after its first character; otherwise the cut stays at `end`.
RECURSIVE CutAt(_, _, _, _, _)
CutAt(text, start, end, chunk_size, k) ==
    IF k > Len(Separators) THEN end
    ELSE LET last_sep == rfind(text, Separators[k], start, end)
         IN IF last_sep > start + (chunk_size \div 2)
            THEN last_sep + 1
            ELSE CutAt(text, start, end, chunk_size, k + 1)

\* One pass of the while-loop body: the window's end for the cursor `start`
WindowEnd(text, start, chunk_size) ==
    LET end == start + chunk_size
    IN IF end < Len(text) THEN CutAt(text, start, end, chunk_size, 1) ELSE end

\* The cursor after the window [start, end)
NextStart(text, end, overlap) ==
    IF end < Len(text) THEN end - overlap ELSE Len(text)

RECURSIVE ChunkLoop(_, _, _, _, _)
ChunkLoop(text, chunk_size, overlap, start, chunks) ==
    IF ~(start < Len(text)) THEN chunks
    ELSE LET end == WindowEnd(text, start, chunk_size)
             chunk == strip(Slice(text, start, end))
             out == IF chunk # <<>> THEN Append(chunks, chunk) ELSE chunks
         IN ChunkLoop(text, chunk_size, overlap, NextStart(text, end, overlap), out)

chunk_transcript(text, chunk_size, overlap) ==
    IF text = <<>> \/ Len(text) < chunk_size
    THEN (IF text # <<>> THEN <<text>> ELSE <<>>)
    ELSE ChunkLoop(text, chunk_size, overlap, 0, <<>>)

(***************************************************************************)
(* Embeddings.  all-MiniLM-L6-v2 returns unit-length vectors of 384        *)
(* floats; here a vector has two fixed-point components and length 5, so   *)
(* that the number 1.0 of a cosine is One = 25.  Embed is the provider:    *)
(* a deterministic function of the text and nothing else.                  *)
(***************************************************************************)
Vecs == << <<5, 0>>, <<4, 3>>, <<3, 4>>, <<0, 5>> >>

Alphabet ==
    <<" ", "\n", ".", "!", "a", "b", "c", "d", "e", "f", "g", "x", "y", "z", "?", "\t">>

Code(ch) == CHOOSE i \in 1..Len(Alphabet) : Alphabet[i] = ch

RECURSIVE CodeSum(_)
CodeSum(s) == IF s = <<>> THEN 0 ELSE Code(Head(s)) + CodeSum(Tail(s))

\* model.encode(text)
Embed(text) == Vecs[(CodeSum(text) % Len(Vecs)) + 1]

Dot(a, b) == a[1] * b[1] + a[2] * b[2]

One == Dot(Vecs[1], Vecs[1])

Norm(a) == CHOOSE n \in 0..One : n * n = Dot(a, a)

\* pgvector's a <=> b, the cosine distance 1 - a.b / (|a| |b|)
CosineDistance(a, b) == One - ((One * Dot(a, b)) \div (Norm(a) * Norm(b)))

(***************************************************************************)
(* The text form "[x, y]" in which a vector travels to the database:       *)
(* str(vector.tolist()) on the way out, the vector type's input function   *)
(* on the way in.                                                          *)
(***************************************************************************)
Digits == <<"0", "1", "2", "3", "4", "5", "6", "7", "8", "9">>

RECURSIVE NatStr(_)
NatStr(n) ==
    IF n < 10 THEN <<Digits[n + 1]>>
    ELSE NatStr(n \div 10) \o <<Digits[(n % 10) + 1]>>

IntStr(n) == IF n < 0 THEN <<"-">> \o NatStr(-n) ELSE NatStr(n)

\* str(list)
VectorStr(v) ==
    <<"[">> \o join(<<",", " ">>, [i \in 1..Len(v) |-> IntStr(v[i])]) \o <<"]">>

DigitVal(c) == CHOOSE d \in 0..9 : Digits[d + 1] = c

RECURSIVE ParseNat(_, _)
ParseNat(s, acc) ==
    IF s = <<>> THEN acc ELSE ParseNat(Tail(s), 10 * acc + DigitVal(Head(s)))

ParseInt(tok) ==
    LET t == strip(tok)
    IN IF Head(t) = "-" THEN 0 - ParseNat(Tail(t), 0) ELSE ParseNat(t, 0)

\* s.split(c) for a one-character separator c
RECURSIVE Split(_, _, _)
Split(s, c, cur) ==
    IF s = <<>> THEN <<cur>>
    ELSE IF Head(s) = c THEN <<cur>> \o Split(Tail(s), c, <<>>)
    ELSE Split(Tail(s), c, Append(cur, Head(s)))

\* the cast of the text parameter to vector
VectorIn(s) ==
    LET toks == Split(SubSeq(s, 2, Len(s) - 1), ",", <<>>)
    IN [i \in 1..Len(toks) |-> ParseInt(toks[i])]

(***************************************************************************)
(* The database.  meetings is owned by the rest of the application and is  *)
(* fixed here; meeting_embeddings starts empty.  A row of                  *)
(* meeting_embeddings carries xmin, the transaction that inserted it:      *)
(* rows are told apart by it (the table has no key over meeting_id and     *)
(* chunk_index; its primary key is a serial).                              *)
(***************************************************************************)
NoDate == [null |-> TRUE, year |-> 0, month |-> 0, day |-> 0]

Date(y, m, d) == [null |-> FALSE, year |-> y, month |-> m, day |-> d]

Meetings ==
    [id \in {"m1", "m2"} |->
        IF id = "m1"
        THEN [title |-> "Standup", created_at |-> Date(2024, 5, 17)]
        ELSE [title |-> "Retro", created_at |-> NoDate]]

MeetingIds == DOMAIN Meetings

Calls == 1..MaxCalls

\* The transcripts a caller passes: each element is one transcript's 'text'
InputA == << <<"a", "b", ".", " ", "c", "d", "e", "f", "g">> >>
InputB == << <<"x", "y", "z">> >>
InputNone == << >>
\* One transcript of white space, and one without text
InputBlank == << <<" ", "\n">>, <<>> >>
\* The transcripts of a refresh made before the calls modelled here
InputOld == << <<"f", "e", "d">> >>
TranscriptInputs == {InputA, InputB, InputNone, InputBlank}

Queries == { <<"a">>, <<"c">> }

\* allowed_meeting_ids: None, or a list
NoneList == [given |-> FALSE, ids |-> <<>>]
List(ids) == [given |-> TRUE, ids |-> ids]
AllowedInputs == {NoneList, List(<<>>), List(<<"m1">>), List(<<"m1", "m2">>)}

\* Python's truth value of an Optional[List]
Truthy(a) == a.given /\ a.ids # <<>>

Elems(seq) == {seq[i] : i \in DOMAIN seq}

VARIABLES
    db,       \* the committed rows of meeting_embeddings
    call,     \* call[c]: the c-th call of store_meeting_embeddings
    search,   \* the latest call of search_context: its arguments and what it returned
    loop      \* a call of chunk_transcript followed pass by pass: its arguments and locals

vars == <<db, call, search, loop>>

IdleCall ==
    [pc |-> "idle", meeting_id |-> "", chunks |-> <<>>, snap |-> {}, del |-> {},
     ins |-> <<>>, outcome |-> "none", ret |-> 0]

NoSearch ==
    [query |-> <<>>, n_results |-> 0, allowed |-> NoneList, plan |-> "none",
     outcome |-> "none", result |-> <<>>]

\* No call of chunk_transcript is being followed
NoLoop ==
    [pc |-> "none", text |-> <<>>, chunk_size |-> 0, overlap |-> 0, start |-> 0,
     chunks |-> <<>>, windows |-> <<>>]

(***************************************************************************)
(* store_meeting_embeddings                                                *)
(***************************************************************************)
\* full_text = "\n".join([t.get('text', '') for t in transcripts if t.get('text')])
FullText(transcripts) == join(<<"\n">>, SelectSeq(transcripts, LAMBDA t : t # <<>>))

\* A row that another open transaction has deleted and not yet committed
LockedByOther(r, c) ==
    \E o \in Calls : o # c /\ call[o].pc = "ins" /\ r \in call[o].del

\* (mutant) the DELETE without its WHERE: every committed row is a target
Delete_NoWhere(c, meeting_id, chunks) ==
    LET targets == db
        opened == [IdleCall EXCEPT !.meeting_id = meeting_id, !.chunks = chunks]
    IN IF \E r \in targets : LockedByOther(r, c)
       THEN [opened EXCEPT !.pc = "blocked", !.snap = targets]
       ELSE [opened EXCEPT !.pc = "ins", !.del = targets]

\* Line 103: DELETE FROM meeting_embeddings WHERE meeting_id = $1.  The statement
\* sees the rows committed when it starts.  If another open transaction has
\* deleted one of them, the statement waits for that transaction to end.
Delete(c, meeting_id, chunks) ==
    LET targets == {r \in db : r.meeting_id = meeting_id}
        opened == [IdleCall EXCEPT !.meeting_id = meeting_id, !.chunks = chunks]
    IN IF \E r \in targets : LockedByOther(r, c)
       THEN [opened EXCEPT !.pc = "blocked", !.snap = targets]
       ELSE [opened EXCEPT !.pc = "ins", !.del = targets]

\* (mutant) the DELETE is issued, and committed, before the text is looked at
Unopened_Deleted(rows, meeting_id) == {r \in rows : r.meeting_id # meeting_id}

\* What a call that returns at line 80, 87 or 92 leaves of the committed rows: it
\* has opened no connection
Unopened(rows, meeting_id) == rows

\* (mutant) line 85 without the strip: only a text of no characters is refused
NoText_Untrimmed(full_text) == full_text = <<>>

\* Line 85: not full_text.strip()
NoText(full_text) == strip(full_text) = <<>>

\* Lines 78-103 for the c-th call, made with the given arguments and with or
\* without an embedding model: the early returns, the embedding of the chunks,
\* the connection, the opening of the transaction and the DELETE.  Up to the
\* DELETE the call touches nothing another call can see.  A call that returns
\* early does so without a model (line 80, outcome "no_model") or without text
\* (lines 87 and 92, outcome "returned"), with 0 in both cases.
Open(c, meeting_id, transcripts, model) ==
    /\ search.outcome = "none"
    /\ call[c].pc = "idle"
    /\ \A k \in Calls : k < c => call[k].pc # "idle"
    /\ LET full_text == FullText(transcripts)
           chunks == chunk_transcript(full_text, ChunkSize, Overlap)
           early == ~model \/ NoText(full_text) \/ chunks = <<>>
       IN /\ call' = [call EXCEPT ![c] =
                IF early
                THEN [IdleCall EXCEPT !.pc = "done", !.meeting_id = meeting_id,
                         !.outcome = IF model THEN "returned" ELSE "no_model",
                         !.ret = 0]
                ELSE Delete(c, meeting_id, chunks)]
          /\ db' = IF early THEN Unopened(db, meeting_id) ELSE db
    /\ UNCHANGED <<search, loop>>

\* A call of store_meeting_embeddings begins
Begin(c) ==
    \E meeting_id \in MeetingIds, transcripts \in TranscriptInputs, model \in BOOLEAN :
        Open(c, meeting_id, transcripts, model)

\* The waiting DELETE goes on once the rows it waited for are free: the rows of
\* its snapshot that still exist are deleted; rows committed since the statement
\* started are not in its snapshot and stay.
Unblock(c) ==
    /\ search.outcome = "none"
    /\ call[c].pc = "blocked"
    /\ \A r \in call[c].snap : ~LockedByOther(r, c)
    /\ call' = [call EXCEPT ![c] =
           [@ EXCEPT !.pc = "ins", !.del = call[c].snap \cap db, !.snap = {}]]
    /\ UNCHANGED <<db, search, loop>>

\* Lines 107-111: the i-th record, (meeting_id, i, chunk, vector_str)
Record(meeting_id, chunks, i) ==
    <<meeting_id, i, chunks[i + 1], VectorStr(Embed(chunks[i + 1]))>>

\* The row the INSERT of lines 114-117 makes of a record in transaction c
Row(c, rec) ==
    [xmin |-> c, meeting_id |-> rec[1], chunk_index |-> rec[2], content |-> rec[3],
     embedding |-> VectorIn(rec[4])]

\* Lines 114-117: executemany runs the INSERT once per record, in order
InsertOne(c) ==
    /\ search.outcome = "none"
    /\ call[c].pc = "ins"
    /\ Len(call[c].ins) < Len(call[c].chunks)
    /\ call' = [call EXCEPT ![c].ins =
           Append(@, Row(c, Record(call[c].meeting_id, call[c].chunks, Len(@))))]
    /\ UNCHANGED <<db, search, loop>>

\* (mutant) the COMMIT applies the inserts and not the DELETE
Committed_KeepOld(rows, c) == rows \cup Elems(call[c].ins)

\* What the COMMIT of transaction c makes of the committed rows
Committed(rows, c) == (rows \ call[c].del) \cup Elems(call[c].ins)

\* Line 101, leaving the `async with` block: COMMIT
Commit(c) ==
    /\ search.outcome = "none"
    /\ call[c].pc = "ins"
    /\ Len(call[c].ins) = Len(call[c].chunks)
    /\ db' = Committed(db, c)
    /\ call' = [call EXCEPT ![c].pc = "committed"]
    /\ UNCHANGED <<search, loop>>

\* A call that has ended: its arguments (the meeting, and the chunks its
\* transcripts made), how it ended and what it returned
Ended(c, outcome, ret) ==
    [IdleCall EXCEPT !.pc = "done", !.meeting_id = call[c].meeting_id,
                     !.chunks = call[c].chunks, !.outcome = outcome, !.ret = ret]

\* Lines 119-123: close the connection and return len(chunks)
Close(c) ==
    /\ search.outcome = "none"
    /\ call[c].pc = "committed"
    /\ call' = [call EXCEPT ![c] = Ended(c, "returned", Len(call[c].chunks))]
    /\ UNCHANGED <<db, search, loop>>

\* (mutant) the DELETE takes effect although the transaction is rolled back
RolledBack_DeleteKept(rows, c) == rows \ call[c].del

\* What a transaction that ends without COMMIT leaves of the committed rows
RolledBack(rows, c) == rows

\* An await of lines 103-117 raises (the connection drops, a statement fails or
\* times out) or the task is cancelled there: the `async with` block rolls the
\* transaction back, and line 125 catches the exception and returns 0.  (A
\* cancellation is rolled back alike and reaches the caller.)
Fail(c) ==
    /\ search.outcome = "none"
    /\ call[c].pc \in {"blocked", "ins"}
    /\ db' = RolledBack(db, c)
    /\ call' = [call EXCEPT ![c] = Ended(c, "caught", 0)]
    /\ UNCHANGED <<search, loop>>

\* conn.close() at line 123 raises, after the COMMIT: line 125 catches that too
CloseFail(c) ==
    /\ search.outcome = "none"
    /\ call[c].pc = "committed"
    /\ call' = [call EXCEPT ![c] = Ended(c, "caught", 0)]
    /\ UNCHANGED <<db, search, loop>>

(***************************************************************************)
(* search_context                                                          *)
(***************************************************************************)
\* (mutant) the WHERE clause is never added
Selected_NoFilter(rows, allowed) == {r \in rows : r.meeting_id \in MeetingIds}

\* (mutant) the SELECT also reads the rows that open transactions have inserted
Selected_Dirty(rows, allowed) ==
    {r \in rows \cup UNION {Elems(call[c].ins) : c \in {k \in Calls : call[k].pc = "ins"}} :
        /\ r.meeting_id \in MeetingIds
        /\ Truthy(allowed) => r.meeting_id \in Elems(allowed.ids)}

\* FROM meeting_embeddings e JOIN meetings m ON e.meeting_id = m.id, and the
\* WHERE e.meeting_id = ANY($2::text[]) that lines 167-169 add for a list that
\* is true in Python's sense
Selected(rows, allowed) ==
    {r \in rows :
        /\ r.meeting_id \in MeetingIds
        /\ Truthy(allowed) => r.meeting_id \in Elems(allowed.ids)}

\* The rows with the distance of each from the query vector
Scored(rows, qv) ==
    {[row |-> r, distance |-> CosineDistance(r.embedding, qv)] : r \in rows}

\* (mutant) ORDER BY ... DESC
Nearest_Desc(scored) == {s \in scored : \A x \in scored : s.distance >= x.distance}

\* The rows that ORDER BY e.embedding <=> $1 may put first: those at the least
\* distance.  SQL leaves the order of rows at equal distance open.
Nearest(scored) == {s \in scored : \A x \in scored : s.distance <= x.distance}

\* ORDER BY e.embedding <=> $1 LIMIT n: every sequence of the n first rows of an
\* order in which the distance never decreases
RECURSIVE OrderByLimit(_, _)
OrderByLimit(scored, n) ==
    IF scored = {} \/ n <= 0 THEN {<<>>}
    ELSE UNION {{<<s>> \o rest : rest \in OrderByLimit(scored \ {s}, n - 1)} :
                    s \in Nearest(scored)}

\* The select list of lines 150-156
Project(s) ==
    [content |-> s.row.content,
     meeting_id |-> s.row.meeting_id,
     meeting_title |-> Meetings[s.row.meeting_id].title,
     meeting_date |-> Meetings[s.row.meeting_id].created_at,
     chunk_index |-> s.row.chunk_index,
     similarity |-> One - s.distance]

\* The ways the database may run the SELECT: a sequential scan of
\* meeting_embeddings and a sort, or a scan of the HNSW index on embedding in
\* the order of the distance.  The planner chooses; the code does not.
Plans == {"seq", "hnsw"}

\* The rows the scan hands to the join and the WHERE clause.  The index scan
\* yields EfSearch candidates and no more; they are taken here to be the nearest
\* rows of the table, the best an approximate index does.
Scanned(rows, qv, plan) ==
    IF plan = "seq" THEN {rows}
    ELSE {{o[i].row : i \in DOMAIN o} : o \in OrderByLimit(Scored(rows, qv), EfSearch)}

\* The result sets the statement may return, qv being the vector that $1 reads as
Statement(rows, qv, n_results, allowed, plan) ==
    UNION {{[i \in 1..Len(o) |-> Project(o[i])] :
                o \in OrderByLimit(Scored(Selected(cand, allowed), qv), n_results)} :
           cand \in Scanned(rows, qv, plan)}

\* conn.fetch(sql, *args), args[0] being the text of the query vector
Fetch(rows, vector_str, n_results, allowed, plan) ==
    UNION {Statement(rows, qv, n_results, allowed, plan) : qv \in {VectorIn(vector_str)}}

Pad2(n) == IF n < 10 THEN <<"0">> \o NatStr(n) ELSE NatStr(n)

\* datetime.isoformat(), for a timestamp at midnight
isoformat(d) ==
    NatStr(d.year) \o <<"-">> \o Pad2(d.month) \o <<"-">> \o Pad2(d.day)
        \o <<"T", "0", "0", ":", "0", "0", ":", "0", "0">>

\* Lines 182-191
Format(rows) ==
    [i \in 1..Len(rows) |->
        [text |-> rows[i].content,
         meeting_id |-> rows[i].meeting_id,
         meeting_title |-> rows[i].meeting_title,
         meeting_date |->
             IF ~rows[i].meeting_date.null THEN isoformat(rows[i].meeting_date) ELSE <<>>,
         similarity |-> rows[i].similarity,
         chunk_index |-> rows[i].chunk_index]]

\* One call of search_context.  Its only statement is the SELECT, which reads
\* the rows committed at the moment it runs.  Without a model (lines 135-137)
\* and on any exception (lines 199-201) the call returns [].
SearchWith(query, n_results, allowed) ==
    /\ search.outcome = "none"
    /\ \E outcome \in {"ok", "no_model", "error"} :
         IF outcome = "ok"
         THEN \E plan \in Plans :
                \E rows \in Fetch(db, VectorStr(Embed(query)), n_results, allowed, plan) :
                  search' = [query |-> query, n_results |-> n_results,
                             allowed |-> allowed, plan |-> plan, outcome |-> "ok",
                             result |-> Format(rows)]
         ELSE search' = [query |-> query, n_results |-> n_results,
                         allowed |-> allowed, plan |-> "none", outcome |-> outcome,
                         result |-> <<>>]
    /\ UNCHANGED <<db, call, loop>>

\* The searches that run beside the refreshes: one query, no limit in effect
ProbeLimits == {10}

Probe == \E n_results \in ProbeLimits : SearchWith(<<"a">>, n_results, NoneList)

\* Any search
Search ==
    \E query \in Queries, n_results \in 1..MaxLimit, allowed \in AllowedInputs :
        SearchWith(query, n_results, allowed)

(***************************************************************************)
(* Spec: refreshes of the meetings run concurrently, each step of a call   *)
(* being one statement sent to the database, and a search runs at any      *)
(* moment among them.  A behaviour is followed up to the return of that    *)
(* search.                                                                 *)
(***************************************************************************)
\* Transaction 0 stands for a refresh that committed before the calls modelled
\* here were made.
\* The rows a refresh of meeting_id with transcripts leaves when it commits as
\* transaction t
RowsOf(t, meeting_id, transcripts) ==
    LET chunks == chunk_transcript(FullText(transcripts), ChunkSize, Overlap)
    IN {Row(t, Record(meeting_id, chunks, i)) : i \in 0..(Len(chunks) - 1)}

\* The table as setup_vector_table leaves it, or as an earlier refresh of one
\* meeting left it
Init ==
    /\ db \in {{}, RowsOf(0, "m1", InputOld)}
    /\ call = [c \in Calls |-> IdleCall]
    /\ search = NoSearch
    /\ loop = NoLoop

Refresh(c) ==
    \/ Begin(c)
    \/ Unblock(c)
    \/ InsertOne(c)
    \/ Commit(c)
    \/ Close(c)
    \/ Fail(c)
    \/ CloseFail(c)

\* A behaviour follows the calls up to one search (every step of a refresh
\* requires that no search has returned yet)
Next ==
    \/ \E c \in Calls : Refresh(c)
    \/ Probe

Spec == Init /\ [][Next]_vars

(***************************************************************************)
(* SpecSearch: searches against a store at rest.  The store holds, for     *)
(* any number of finished transactions, the complete rows of each.         *)
(***************************************************************************)
Txns == 0..MaxCalls

Refreshes ==
    << <<"m1", InputA>>, <<"m1", InputB>>, <<"m2", InputA>>, <<"m2", InputB>>,
       <<"m1", InputNone>> >>

InitSearch ==
    /\ \E f \in [Txns -> DOMAIN Refreshes] :
         /\ \A t \in Txns : t > 0 => f[t - 1] <= f[t]
         /\ db = UNION {RowsOf(t, Refreshes[f[t]][1], Refreshes[f[t]][2]) : t \in Txns}
    /\ call = [c \in Calls |-> IdleCall]
    /\ search = NoSearch
    /\ loop = NoLoop

NextSearch == Search

SpecSearch == InitSearch /\ [][NextSearch]_vars

(***************************************************************************)
(* SpecChunk: one call of chunk_transcript, followed pass by pass of its   *)
(* while-loop, for every text and every pair of sizes within the bounds.   *)
(***************************************************************************)
ChunkAlphabet == {"a", ".", " "}

RECURSIVE TextsUpTo(_)
TextsUpTo(n) ==
    IF n = 0 THEN {<<>>}
    ELSE LET shorter == TextsUpTo(n - 1)
         IN shorter \cup {Append(t, ch) : t \in {x \in shorter : Len(x) = n - 1},
                                          ch \in ChunkAlphabet}

\* The text "A. B. C."
ScenarioText == <<"A", ".", " ", "B", ".", " ", "C", ".">>

\* A text whose first window of seven characters holds a period-space and, nearer
\* to its end, a newline
KindsText == <<"a", "a", "a", "a", ".", " ", "\n", "a">>

Texts == TextsUpTo(MaxLen) \cup {ScenarioText, KindsText}

InitChunk ==
    /\ db = {}
    /\ call = [c \in Calls |-> IdleCall]
    /\ search = NoSearch
    /\ \E text \in Texts, chunk_size \in 1..MaxChunkArg, overlap \in 0..MaxOverlapArg :
         loop = [NoLoop EXCEPT !.pc = "called", !.text = text,
                               !.chunk_size = chunk_size, !.overlap = overlap]

\* Lines 40-44: the early return, or chunks = [] and start = 0
Enter ==
    /\ loop.pc = "called"
    /\ loop' = IF loop.text = <<>> \/ Len(loop.text) < loop.chunk_size
               THEN [loop EXCEPT !.pc = "returned",
                                 !.chunks = IF loop.text # <<>> THEN <<loop.text>> ELSE <<>>]
               ELSE [loop EXCEPT !.pc = "loop", !.start = 0, !.chunks = <<>>]
    /\ UNCHANGED <<db, call, search>>

\* The cursors at which the passes so far began
Cursors(windows) == {windows[i][1] : i \in DOMAIN windows}

\* Lines 46-60: one pass of the while-loop.  A pass is a function of text and
\* start alone, so a pass that sets start to a cursor an earlier pass began at
\* (or to its own) is repeated without end: "forever" stands for that run, which
\* is followed no further.
Iterate ==
    /\ loop.pc = "loop"
    /\ loop.start < Len(loop.text)
    /\ LET end == WindowEnd(loop.text, loop.start, loop.chunk_size)
           chunk == strip(Slice(loop.text, loop.start, end))
           windows == Append(loop.windows, <<loop.start, end>>)
           start == NextStart(loop.text, end, loop.overlap)
       IN loop' = [loop EXCEPT
                      !.pc = IF start \in Cursors(windows) THEN "forever" ELSE "loop",
                      !.start = start,
                      !.windows = windows,
                      !.chunks = IF chunk # <<>> THEN Append(@, chunk) ELSE @]
    /\ UNCHANGED <<db, call, search>>

\* Lines 46 and 62: the loop condition fails, return chunks
Return ==
    /\ loop.pc = "loop"
    /\ ~(loop.start < Len(loop.text))
    /\ loop' = [loop EXCEPT !.pc = "returned"]
    /\ UNCHANGED <<db, call, search>>

NextChunk == Enter \/ Iterate \/ Return

SpecChunk == InitChunk /\ [][NextChunk]_vars

(***************************************************************************)
(* SpecStore: one call of store_meeting_embeddings, with a model, for      *)
(* every transcript text within the bounds.  No other call runs, so its    *)
(* DELETE never waits.                                                     *)
(***************************************************************************)
StoreInputs == {<<text>> : text \in TextsUpTo(MaxLen)} \cup TranscriptInputs

InitStore ==
    /\ db \in {{}, RowsOf(0, "m1", InputOld)}
    /\ call = [c \in Calls |-> IdleCall]
    /\ search = NoSearch
    /\ loop = NoLoop

BeginAny == \E transcripts \in StoreInputs : Open(1, "m1", transcripts, TRUE)

NextStore ==
    \/ BeginAny
    \/ InsertOne(1)
    \/ Commit(1)
    \/ Close(1)
    \/ Fail(1)
    \/ CloseFail(1)

SpecStore == InitStore /\ [][NextStore]_vars

(***************************************************************************)
(* Vocabulary of the properties                                            *)
(***************************************************************************)
\* The committed rows that transaction t inserted
Own(t, rows) == {r \in rows : r.xmin = t}

\* The committed rows of one meeting
RowsFor(meeting_id, rows) == {r \in rows : r.meeting_id = meeting_id}

\* Every row the c-th call inserts when it runs to its COMMIT, cl being call[c]
WholeOf(c, cl) ==
    {Row(c, Record(cl.meeting_id, cl.chunks, i)) : i \in 0..(Len(cl.chunks) - 1)}

Whole(c) == WholeOf(c, call[c])

InTransaction(c) == call[c].pc \in {"blocked", "ins"}

Failed(c) == call[c].pc = "done" /\ call[c].outcome = "caught"

Succeeded(c) == call[c].pc = "done" /\ call[c].outcome = "returned" /\ call[c].ret > 0

\* Nothing of an open transaction is committed, and what is committed of a
\* transaction is all of it (rows: the committed rows, cs: the calls)
NoPartial(rows, cs) ==
    \A c \in Calls :
        /\ Own(c, rows) = {} \/ Own(c, rows) = WholeOf(c, cs[c])
        /\ cs[c].pc \in {"blocked", "ins"} => Own(c, rows) = {} /\ cs[c].del \subseteq rows

(***************************************************************************)
(* C1.  Refresh is all-or-nothing.                                         *)
(***************************************************************************)
\* C1 as claimed: a call that failed after it issued its DELETE has left the
\* committed rows as they were before it, so no committed row is one it inserted.
C1_FailedCallLeftNothing ==
    \A c \in Calls : Failed(c) => Own(c, db) = {}

\* C1 as amended: no committed state holds a part of a call's rows, or misses
\* rows that an open transaction has deleted; a step that fails between the
\* DELETE and the COMMIT leaves the committed rows unchanged; and the committed
\* rows change only in a COMMIT, which applies the DELETE and all the inserts of
\* its call together.
C1_AllOrNothing ==
    /\ []NoPartial(db, call)
    /\ [][/\ \A c \in Calls : InTransaction(c) /\ Failed(c)' => db' = db
          /\ db' # db =>
               \E c \in Calls :
                   /\ call[c].pc = "ins" /\ call'[c].pc = "committed"
                   /\ Elems(call[c].ins) = Whole(c)
                   /\ db' = (db \ call[c].del) \cup Whole(c)]_vars

\* C1 witness: the only call made was a refresh of m1, it failed after its
\* DELETE of the earlier chunks of m1, and those chunks are all still committed.
C1_Witness ==
    /\ Failed(1) /\ call[1].meeting_id = "m1"
    /\ call[1].chunks = chunk_transcript(FullText(InputA), ChunkSize, Overlap)
    /\ call[2].pc = "idle"
    /\ db = RowsOf(0, "m1", InputOld)

(***************************************************************************)
(* C2.  Concurrent refreshes of one meeting are serialized.                *)
(***************************************************************************)
\* C2 as claimed: when two calls for the same meeting have both returned their
\* counts, the committed rows of the meeting are never rows of both.
C2_OneOfTwo ==
    \A c1, c2 \in Calls :
        (/\ c1 # c2
         /\ Succeeded(c1) /\ Succeeded(c2)
         /\ call[c1].meeting_id = call[c2].meeting_id)
        => ~(Own(c1, db) # {} /\ Own(c2, db) # {})

(***************************************************************************)
(* C3.  chunk_index is 0..n-1 per meeting in every committed state.        *)
(***************************************************************************)
\* C3 as claimed: the committed rows of a meeting carry the indexes 0..n-1, each
\* once, n being their number.
C3_ContiguousIndexes ==
    \A m \in MeetingIds :
        LET rows == RowsFor(m, db)
        IN /\ \A r1, r2 \in rows : r1 # r2 => r1.chunk_index # r2.chunk_index
           /\ {r.chunk_index : r \in rows} = 0..(Cardinality(rows) - 1)

(***************************************************************************)
(* C4.  A refresh leaves exactly the chunks of its own text.               *)
(***************************************************************************)
\* C4 as claimed: when a refresh commits (the step its successful return rests
\* on), the committed rows of its meeting are exactly the rows of its chunks, in
\* their order; no row of an earlier text remains.
C4_ReplacedWholesale ==
    [][\A c \in Calls :
          call[c].pc = "ins" /\ call'[c].pc = "committed"
          => RowsFor(call[c].meeting_id, db') = Whole(c)]_vars

(***************************************************************************)
(* C5.  A search beside a refresh sees the old or the new chunk set.       *)
(***************************************************************************)
\* What a match shows of a row
Shown(x) == <<x.meeting_id, x.chunk_index, x.text>>

\* The rows that a match may be showing
ShownBy(k, rows) == {r \in rows : <<r.meeting_id, r.chunk_index, r.content>> = k}

\* Every match is one of the given rows, no row twice
ShowsOnly(result, rows) ==
    \A k \in {Shown(result[i]) : i \in DOMAIN result} :
        Cardinality({i \in DOMAIN result : Shown(result[i]) = k})
            <= Cardinality(ShownBy(k, rows))

\* The matches are the given rows, each once
ShowsExactly(result, rows) ==
    /\ ShowsOnly(result, rows)
    /\ \A r \in rows : \E i \in DOMAIN result :
           Shown(result[i]) = <<r.meeting_id, r.chunk_index, r.content>>
    /\ Len(result) = Cardinality(rows)

\* The rows a search is allowed to see
Visible(rows, allowed) ==
    {r \in rows : Truthy(allowed) => r.meeting_id \in Elems(allowed.ids)}

\* C5: every match of a search is a row committed at the moment the search runs
\* (of a meeting it may see); a search whose scan and limit leave no row out
\* returns exactly those rows; and the committed rows hold nothing of a refresh
\* still in its transaction (neither its DELETE nor any of its inserts) and all
\* the rows of a refresh that has committed and was not replaced.
C5_SearchSeesWholeSets ==
    [][search.outcome = "none" /\ search'.outcome = "ok"
       => /\ ShowsOnly(search'.result, Visible(db, search'.allowed))
          /\ (search'.plan = "seq" \/ Cardinality(db) <= EfSearch)
                /\ Cardinality(db) <= search'.n_results
             => ShowsExactly(search'.result, Visible(db, search'.allowed))
          /\ NoPartial(db, call)]_vars

\* C5 witness: call 1 refreshes m1 and is between its DELETE and its COMMIT,
\* having inserted a row; its DELETE found nothing, so it began before call 2
\* committed its two chunks of m1; the search has returned exactly those two.
C5_Witness ==
    /\ call[1].pc = "ins" /\ call[1].meeting_id = "m1"
    /\ call[1].del = {} /\ call[1].ins # <<>>
    /\ call[2].meeting_id = "m1" /\ Cardinality(Own(2, db)) = 2
    /\ db = Own(2, db)
    /\ search.outcome = "ok" /\ search.allowed = NoneList
    /\ Len(search.result) = 2
(***************************************************************************)
(* Vocabulary of the search properties (checked under SpecSearch, where    *)
(* db is the store the one search ran against)                             *)
(***************************************************************************)
Found == search.outcome = "ok"

\* The store as refreshes that never overlapped leave it: the rows of a meeting
\* all come from one transaction
OneRefreshEach(rows) ==
    \A m \in MeetingIds : Cardinality({r.xmin : r \in RowsFor(m, rows)}) <= 1

\* The similarity of a stored row to the query of the search
Sim(r) == One - CosineDistance(r.embedding, Embed(search.query))

\* Document identifiers in their order
IdRank(id) == IF id = "m1" THEN 1 ELSE 2

\* What a match shows of a row, with its score
Scored4(meeting_id, chunk_index, content, similarity) ==
    <<meeting_id, chunk_index, content, similarity>>

MatchKey(x) == Scored4(x.meeting_id, x.chunk_index, x.text, x.similarity)

RowKey(r) == Scored4(r.meeting_id, r.chunk_index, r.content, Sim(r))

(***************************************************************************)
(* C6.  A non-empty allow-list bounds the result.                          *)
(***************************************************************************)
\* C6: every match of a search called with a non-empty allowed_meeting_ids is a
\* chunk of a meeting in that list.
C6_OnlyAllowed ==
    Found /\ search.allowed.given /\ search.allowed.ids # <<>>
    => \A i \in DOMAIN search.result :
           search.result[i].meeting_id \in Elems(search.allowed.ids)

\* C6 witness: the store holds chunks of m2, the search allowed m1 only and
\* returned matches.
C6_Witness ==
    /\ OneRefreshEach(db)
    /\ Found /\ search.allowed = List(<<"m1">>)
    /\ RowsFor("m2", db) # {}
    /\ search.result # <<>>

(***************************************************************************)
(* C7.  An empty allow-list is not the unrestricted marker.                *)
(***************************************************************************)
\* C7 as claimed: a search called with the empty list returns no match (stated
\* for the stores that refreshes one after the other leave).
C7_EmptyListSeesNothing ==
    OneRefreshEach(db) /\ Found /\ search.allowed = List(<<>>) => search.result = <<>>

(***************************************************************************)
(* C8.  The allow-list is applied before the limit.                        *)
(***************************************************************************)
\* C8 as claimed: with a non-empty allow-list and limit L, the result has exactly
\* min(L, number of stored chunks of the allowed meetings) matches; each is a
\* stored chunk of an allowed meeting, no chunk twice; and no stored chunk of an
\* allowed meeting that is left out scores higher than a match.
C8_FilterBeforeLimit ==
    OneRefreshEach(db) /\ Found /\ Truthy(search.allowed)
    => LET res == search.result
           A == {r \in db : r.meeting_id \in Elems(search.allowed.ids)}
       IN /\ Len(res) = Min(search.n_results, Cardinality(A))
          /\ Len(res) <= search.n_results
          /\ \A i \in DOMAIN res :
               /\ Cardinality({j \in DOMAIN res : MatchKey(res[j]) = MatchKey(res[i])})
                    <= Cardinality({r \in A : RowKey(r) = MatchKey(res[i])})
               /\ Cardinality({r \in A : Sim(r) > res[i].similarity})
                    = Cardinality({j \in DOMAIN res : res[j].similarity > res[i].similarity})

(***************************************************************************)
(* C9.  Matches come best first.                                           *)
(***************************************************************************)
\* C9: in the list search_context returns, the similarity never increases from a
\* match to the next.
C9_BestFirst ==
    Found => \A i \in 1..(Len(search.result) - 1) :
                 search.result[i].similarity >= search.result[i + 1].similarity

\* C9 witness: the search returned two matches of different similarity.
C9_Witness ==
    /\ OneRefreshEach(db)
    /\ Found /\ Len(search.result) >= 2
    /\ search.result[1].similarity > search.result[2].similarity

(***************************************************************************)
(* C10.  Ties are broken by document identifier, then chunk index.         *)
(***************************************************************************)
\* C10 as claimed: of two consecutive matches of equal similarity, the first has
\* the smaller document identifier or, for the same document, a chunk index that
\* is not larger (stated for the stores that refreshes one after the other
\* leave, where a meeting has no index twice).
C10_TiesInKeyOrder ==
    OneRefreshEach(db) /\ Found => \A i \in 1..(Len(search.result) - 1) :
                 LET x == search.result[i]
                     y == search.result[i + 1]
                 IN x.similarity = y.similarity
                    => \/ IdRank(x.meeting_id) < IdRank(y.meeting_id)
                       \/ /\ x.meeting_id = y.meeting_id
                          /\ x.chunk_index <= y.chunk_index

(***************************************************************************)
(* C11.  A refresh without text returns 0 and leaves storage as it was.    *)
(***************************************************************************)
\* The step in which call c returns because its transcripts hold no text
ReturnsEmpty(c) ==
    call[c].pc = "idle" /\ call'[c].pc = "done" /\ call'[c].outcome = "returned"

\* C11: a call of store_meeting_embeddings whose transcripts hold no text (none,
\* or white space only) returns 0, and the committed rows of every meeting, the
\* call's own included, are the same after it as before.
C11_EmptyInputLeavesStorage ==
    [][\A c \in Calls : ReturnsEmpty(c) => call'[c].ret = 0 /\ db' = db]_vars

\* C11 witness: the first call was a refresh of m1 without text; it returned 0,
\* and the chunks that m1 had before are all still stored.
C11_Witness ==
    /\ call[1].pc = "done" /\ call[1].outcome = "returned" /\ call[1].ret = 0
    /\ call[1].meeting_id = "m1" /\ call[1].chunks = <<>>
    /\ db = RowsOf(0, "m1", InputOld)

(***************************************************************************)
(* C12.  A refresh without text after a refresh with text.                 *)
(***************************************************************************)
\* C12 as claimed: when a meeting holds the chunks that a finished refresh
\* wrote, and no other call is under way, a refresh of that meeting without
\* text leaves no chunk stored for it.
C12_EmptyRefreshClears ==
    [][\A c \in Calls :
          (/\ ReturnsEmpty(c)
           /\ \A k \in Calls \ {c} : call[k].pc \in {"idle", "done"}
           /\ \E k \in Calls \ {c} :
                /\ Succeeded(k)
                /\ call[k].meeting_id = call'[c].meeting_id
                /\ RowsFor(call[k].meeting_id, db) = Whole(k))
          => RowsFor(call'[c].meeting_id, db') = {}]_vars

(***************************************************************************)
(* C13.  Errors are told apart from empty results.                         *)
(***************************************************************************)
\* What the caller of a refresh without text gets, and of a search without match
NothingToIndex == 0
NoMatches == <<>>

\* C13 as claimed: a refresh that ended without a model or on an exception did
\* not return what a refresh without text returns, and a search that ended so
\* did not return what a search without match returns.
C13_ErrorsToldApart ==
    /\ \A c \in Calls :
          call[c].pc = "done" /\ call[c].outcome \in {"no_model", "caught"}
          => call[c].ret # NothingToIndex
    /\ search.outcome \in {"no_model", "error"} => search.result # NoMatches

(***************************************************************************)
(* C14.  Refresh is idempotent under identical input.                      *)
(***************************************************************************)
\* What rows store, the transaction that wrote them left aside
Content(rows) == {<<r.meeting_id, r.chunk_index, r.content, r.embedding>> : r \in rows}

\* The step in which the transaction of call c commits
Commits(c) == call[c].pc = "ins" /\ call'[c].pc = "committed"

\* c2 follows c1: c1 has returned its count, the meeting holds exactly what c1
\* wrote, and that is what the DELETE of c2 found
Follows(c2, c1) ==
    /\ c1 # c2
    /\ Succeeded(c1)
    /\ call[c1].meeting_id = call[c2].meeting_id
    /\ RowsFor(call[c1].meeting_id, db) = Whole(c1)
    /\ call[c2].del = Whole(c1)

\* C14: when a refresh that follows a successful refresh of the same meeting with
\* the same text commits, the meeting holds the same contents at the same chunk
\* indexes, with the same vectors, in as many rows, as after the first.
C14_Idempotent ==
    [][\A c1, c2 \in Calls :
          Commits(c2) /\ Follows(c2, c1) /\ call[c1].chunks = call[c2].chunks
          => /\ Content(RowsFor(call[c2].meeting_id, db')) = Content(Whole(c1))
             /\ Cardinality(RowsFor(call[c2].meeting_id, db'))
                  = Cardinality(Whole(c1))]_vars

\* C14 witness: call 2 refreshed m1 with the text of call 1, which had returned
\* 2; its DELETE found the two chunks of call 1, it has committed, and m1 holds
\* its two chunks.
C14_Witness ==
    /\ Succeeded(1) /\ call[1].ret = 2 /\ call[1].meeting_id = "m1"
    /\ call[2].pc = "committed" /\ call[2].meeting_id = "m1"
    /\ call[2].chunks = call[1].chunks
    /\ Cardinality(call[2].del) = 2 /\ call[2].del = WholeOf(1, call[1])
    /\ RowsFor("m1", db) = Whole(2)

(***************************************************************************)
(* C15.  stats() reports the chunk count of a refreshed meeting.           *)
(***************************************************************************)
\* get_collection_stats(): it reads nothing and returns this dictionary
get_collection_stats ==
    [status |-> "available (postgres)", info |-> "Stats require async call"]

\* The keys of a summary under which it carries counts, its texts left aside
CountKeys(stats) == DOMAIN stats \ {"status", "info"}

\* The summary reports n chunks for the meeting
ReportsChunks(stats, meeting_id, n) ==
    \E k \in CountKeys(stats) : stats[k][meeting_id] = n

\* C15 as claimed: while a meeting holds the N chunks that a refresh wrote and
\* returned, the summary of get_collection_stats reports N chunks for it.
C15_StatsCountChunks ==
    \A c \in Calls :
        Succeeded(c) /\ RowsFor(call[c].meeting_id, db) = Whole(c)
        => ReportsChunks(get_collection_stats, call[c].meeting_id, call[c].ret)

(***************************************************************************)
(* C16.  chunk_transcript terminates when 0 <= overlap < chunk_size.       *)
(***************************************************************************)
\* C16 as claimed: with 0 <= overlap < chunk_size, no pass of the loop sets the
\* cursor back to where a pass began, so the loop is never repeated without end.
C16_Terminates ==
    0 <= loop.overlap /\ loop.overlap < loop.chunk_size => loop.pc # "forever"

(***************************************************************************)
(* C17.  chunk_size <= overlap fails fast.                                 *)
(***************************************************************************)
\* C17 as claimed: a call with chunk_size <= overlap neither enters the loop nor
\* returns chunks nor runs without end (it can only raise, which no line of
\* chunk_transcript does).
C17_FailsFast ==
    loop.chunk_size <= loop.overlap => loop.pc \in {"none", "called"}

(***************************************************************************)
(* C18.  A text shorter than chunk_size comes back trimmed.                *)
(***************************************************************************)
\* C18 as claimed: for a text shorter than chunk_size (and overlap below
\* chunk_size) the call returns the one chunk strip(text), or no chunk when
\* strip(text) is empty.
C18_ShortTextTrimmed ==
    (/\ loop.pc = "returned"
     /\ loop.overlap < loop.chunk_size
     /\ Len(loop.text) < loop.chunk_size)
    => loop.chunks = IF strip(loop.text) = <<>> THEN <<>> ELSE <<strip(loop.text)>>

(***************************************************************************)
(* C19.  "A. B. C." with chunk_size 4 and overlap 1.                       *)
(***************************************************************************)
SentenceEnds == {".", "!", "?"}

\* C19 as claimed: chunk_transcript("A. B. C.", 4, 1) returns at least two
\* chunks, and each ends in a sentence delimiter.
C19_ScenarioSplitsOnSentences ==
    (/\ loop.pc = "returned"
     /\ loop.text = ScenarioText /\ loop.chunk_size = 4 /\ loop.overlap = 1)
    => /\ Len(loop.chunks) >= 2
       /\ \A i \in DOMAIN loop.chunks :
            loop.chunks[i][Len(loop.chunks[i])] \in SentenceEnds

(***************************************************************************)
(* C20.  The windows leave no gap.                                         *)
(***************************************************************************)
\* The call is over: it has returned, or it repeats its passes without end
Over == loop.pc \in {"returned", "forever"}

\* C20 as claimed: for a text at least chunk_size long and 0 <= overlap <
\* chunk_size, each window starts at or before the end of the one before it, and
\* every position of the text lies in a window.
C20_NoGap ==
    (/\ Over
     /\ Len(loop.text) >= loop.chunk_size
     /\ 0 <= loop.overlap /\ loop.overlap < loop.chunk_size)
    => /\ \A i \in 1..(Len(loop.windows) - 1) :
             loop.windows[i + 1][1] <= loop.windows[i][2]
       /\ \A p \in 0..(Len(loop.text) - 1) :
             \E i \in DOMAIN loop.windows :
                 loop.windows[i][1] <= p /\ p < loop.windows[i][2]

(***************************************************************************)
(* C21.  The cursor advances by at least chunk_size - overlap.             *)
(***************************************************************************)
\* The step is a pass of the while-loop
Pass == loop.pc = "loop" /\ Len(loop'.windows) = Len(loop.windows) + 1

\* The window the pass of this step has cut
Cut == loop'.windows[Len(loop'.windows)]

\* The pass of this step is not the last one: its window ends before the text does
NonFinal == Pass /\ Cut[2] < Len(loop.text)

\* C21 as claimed: with 0 <= overlap < chunk_size, every pass that is not the
\* last sets the cursor at least chunk_size - overlap characters further,
\* whether its window was cut at chunk_size or at a sentence delimiter.
C21_CursorAdvances ==
    [][(NonFinal /\ 0 <= loop.overlap /\ loop.overlap < loop.chunk_size)
       => loop'.start - loop.start >= loop.chunk_size - loop.overlap]_vars

(***************************************************************************)
(* C22.  The cut goes to the delimiter nearest to the window's end.        *)
(***************************************************************************)
\* The positions past the midpoint of the window [start, start + chunk_size)
\* at which a sentence delimiter of any kind lies, all of it inside the window
PastMidpoint(text, start, chunk_size) ==
    {p \in (start + (chunk_size \div 2) + 1)..(start + chunk_size - 1) :
        \E k \in DOMAIN Separators :
            /\ MatchAt(text, Separators[k], p)
            /\ p + Len(Separators[k]) <= start + chunk_size}

\* The delimiter nearest to the window's end
NearestToEnd(ps) == CHOOSE p \in ps : \A q \in ps : q <= p

\* C22 as claimed: in a pass whose window of chunk_size characters ends before
\* the text does (0 <= overlap < chunk_size), the cut is just after the first
\* character of the delimiter nearest to the window's end among those past the
\* midpoint, of whichever kind; it is at start + chunk_size exactly when there
\* is none.
C22_NearestDelimiter ==
    [][(/\ Pass
        /\ 0 <= loop.overlap /\ loop.overlap < loop.chunk_size
        /\ 0 <= loop.start
        /\ loop.start + loop.chunk_size < Len(loop.text))
       => LET ps == PastMidpoint(loop.text, loop.start, loop.chunk_size)
          IN Cut[2] = IF ps = {} THEN loop.start + loop.chunk_size
                      ELSE NearestToEnd(ps) + 1]_vars

(***************************************************************************)
(* C23.  No stored chunk is blank.                                         *)
(***************************************************************************)
\* s is non-empty after trimming whitespace: it holds a character that is none
NotBlank(s) == \E i \in DOMAIN s : s[i] \notin Whitespace

\* The rows a call has inserted, committed or not
Inserted == UNION {Elems(call[c].ins) : c \in Calls}

\* C23: every chunk a call is about to insert, every row it has inserted and
\* every committed row has a content that is non-empty after trimming
\* whitespace, whatever the transcripts were.
C23_ContentNotBlank ==
    /\ \A r \in db \cup Inserted : NotBlank(r.content)
    /\ \A c \in Calls : \A i \in DOMAIN call[c].chunks : NotBlank(call[c].chunks[i])

\* C23 witness: the call was made with the text " a ", shorter than ChunkSize;
\* it has committed the one chunk " a ", white space included.
C23_Witness ==
    /\ Succeeded(1)
    /\ Own(1, db) # {}
    /\ \A r \in Own(1, db) : r.content = <<" ", "a", " ">>

(***************************************************************************)
(* C24.  A refresh touches the rows of its own meeting only; a search      *)
(* touches none.                                                           *)
(***************************************************************************)
\* The step is one of the c-th call of store_meeting_embeddings
StepOf(c) == call'[c] # call[c]

\* C24: a step of a refresh of one meeting, whatever the other calls are doing
\* and whether the refresh goes on to commit or to fail, leaves the committed
\* rows of every other meeting as they are; and a step of a search leaves all
\* committed rows as they are.
C24_OtherMeetingsUntouched ==
    [][/\ \A c \in Calls : StepOf(c) =>
             \A m \in MeetingIds \ {call'[c].meeting_id} :
                 RowsFor(m, db') = RowsFor(m, db)
       /\ search' # search => db' = db]_vars

\* C24 witness: the chunks of m1 were stored before the calls; call 1 has
\* refreshed m2 and committed, call 2 has failed in a refresh of m2, a search
\* has returned, and the chunks of m1 are the committed rows of m1 still.
C24_Witness ==
    /\ Succeeded(1) /\ call[1].meeting_id = "m2" /\ Own(1, db) # {}
    /\ Failed(2) /\ call[2].meeting_id = "m2"
    /\ search.outcome = "ok"
    /\ RowsFor("m1", db) = RowsOf(0, "m1", InputOld)
====
